---- MODULE Spec2Model ----
(***************************************************************************)
(* Signal detection and ranking core of the nifty-750 trading strategy:    *)
(* Signal and BaseStrategy (src/src/strategies/base.py), the two pattern   *)
(* strategies (src/src/strategies/patterns.py) and StrategyScanner         *)
(* (src/src/strategies/signals.py).                                        *)
(*                                                                         *)
(* Numbers.  Prices and volumes of a frame are whole units.  The prices of *)
(* a Signal (entry, stop, target) are kept in hundredths of a unit, so the *)
(* factors 1.01, 0.98, 0.95 and 1.15 of the source are the integers 101,   *)
(* 98, 95 and 115.  A confidence is kept in tenths (0.9 is 9).  A          *)
(* risk/reward ratio is an exact fraction [num, den] in lowest terms.      *)
(***************************************************************************)
EXTENDS Integers, Sequences, FiniteSets, TLC

\* ------------------------------------------------------------------------
\* Bounds of the model
\* ------------------------------------------------------------------------
\* number of freely chosen bars at the end of a frame
TailLen == 2
\* number of assets in one stock_data mapping
MaxAssets == 2
\* length of the list handed to filter_signals
MaxSignals == 3
\* number of bars of a frame handed to the backtester
MaxBars == 3

\* ------------------------------------------------------------------------
\* Program constants
\* ------------------------------------------------------------------------
GoldenMinBars == 200
BreakoutLookback == 20
StopLookback == 10
VolumeLookback == 20
BreakoutFactor == 101
BreakoutStopFactor == 98
GoldenStopFactor == 95
GoldenTargetFactor == 115
GoldenBonus == 2
ConfidenceCap == 10
NeutralConfidence == 5
MinConfidence == 3
DefaultMaxWorkers == 3
BarsPerYear == 252
RsiWindow == 14
MinBacktestBars == 2

\* ------------------------------------------------------------------------
\* Arithmetic helpers
\* ------------------------------------------------------------------------
Abs(x) == IF x < 0 THEN -x ELSE x

Min2(a, b) == IF a <= b THEN a ELSE b

MaxOf(S) == CHOOSE x \in S : \A y \in S : y <= x

MinOf(S) == CHOOSE x \in S : \A y \in S : x <= y

RECURSIVE GCD(_, _)
GCD(a, b) == IF b = 0 THEN a ELSE GCD(b, a % b)

\* the fraction n/d (d > 0, n >= 0) in lowest terms
Frac(n, d) == LET g == GCD(n, d) IN [num |-> n \div g, den |-> d \div g]

FracLess(a, b) == a.num * b.den < b.num * a.den

FracGeq(a, b) == ~FracLess(a, b)

\* ------------------------------------------------------------------------
\* Frames (pandas DataFrame handed to a strategy)
\* ------------------------------------------------------------------------
\* A frame of n bars is a constant run of the bar `base` followed by the
\* bars of `tail`; cols is the set of its columns; index tells what
\* df.index holds.  kind "none" is an object that is no DataFrame.
ColNames == {"Close", "High", "Low", "Volume", "ema_50", "ema_200"}

Len0(df) == df.n

\* df[col].iloc[i], 0 <= i < len(df)
Cell(df, col, i) ==
    LET p == df.n - Len(df.tail)
    IN IF i < p THEN df.base[col] ELSE df.tail[i - p + 1][col]

\* df.index[i]: a Timestamp (isTs) with its calendar day and the position
\* within the day, or the integer i of a RangeIndex
IndexAt(df, i) ==
    CASE df.index = "daily" -> [isTs |-> TRUE, day |-> i, slot |-> 0]
      [] df.index = "intraday" -> [isTs |-> TRUE, day |-> i \div 2, slot |-> i % 2]
      [] OTHER -> [isTs |-> FALSE, day |-> i, slot |-> 0]

\* ------------------------------------------------------------------------
\* Signal (base.py)
\* ------------------------------------------------------------------------
\* Signal.__post_init__: risk_reward = reward / risk, 0 when risk = 0
RiskReward(side, entry, stop, target) ==
    LET risk == IF side = "BUY" THEN Abs(entry - stop) ELSE Abs(stop - entry)
        reward == IF side = "BUY" THEN Abs(target - entry) ELSE Abs(entry - target)
    IN IF risk > 0 THEN Frac(reward, risk) ELSE Frac(0, 1)

MakeSignal(date, symbol, setup, side, entry, stop, target, confidence) ==
    [date |-> date, symbol |-> symbol, setup |-> setup, side |-> side,
     entry |-> entry, stop |-> stop, target |-> target,
     confidence |-> confidence,
     risk_reward |-> RiskReward(side, entry, stop, target)]

\* BaseStrategy.min_risk_reward = 2.0
MinRiskReward == Frac(2, 1)

\* validate_signal without its risk/reward test
ValidateSignalNoRiskReward(s) ==
    IF s.side = "BUY" /\ (s.target <= s.entry \/ s.stop >= s.entry) THEN FALSE
    ELSE IF s.side # "BUY" /\ (s.target >= s.entry \/ s.stop <= s.entry) THEN FALSE
    ELSE IF s.confidence < MinConfidence THEN FALSE
    ELSE TRUE

\* validate_signal with a confidence test that rejects 0.3 itself
ValidateSignalConfidenceInclusive(s) ==
    IF FracLess(s.risk_reward, MinRiskReward) THEN FALSE
    ELSE IF s.side = "BUY" /\ (s.target <= s.entry \/ s.stop >= s.entry) THEN FALSE
    ELSE IF s.side # "BUY" /\ (s.target >= s.entry \/ s.stop <= s.entry) THEN FALSE
    ELSE IF s.confidence <= MinConfidence THEN FALSE
    ELSE TRUE

\* BaseStrategy.validate_signal
ValidateSignal(s) ==
    IF FracLess(s.risk_reward, MinRiskReward) THEN FALSE
    ELSE IF s.side = "BUY" /\ (s.target <= s.entry \/ s.stop >= s.entry) THEN FALSE
    ELSE IF s.side # "BUY" /\ (s.target >= s.entry \/ s.stop <= s.entry) THEN FALSE
    ELSE IF s.confidence < MinConfidence THEN FALSE
    ELSE TRUE

RECURSIVE SumCells(_, _, _, _)
\* df[col].iloc[a:b].sum()
SumCells(df, col, a, b) ==
    IF a >= b THEN 0 ELSE Cell(df, col, a) + SumCells(df, col, a + 1, b)

\* calculate_volume_confidence with the current bar inside its window of
\* 20 bars
VolumeConfidenceWindowWithCurrent(df, index) ==
    IF df.kind # "frame" THEN NeutralConfidence
    ELSE IF index < VolumeLookback \/ "Volume" \notin df.cols THEN NeutralConfidence
    ELSE IF index >= Len0(df) THEN NeutralConfidence
    ELSE LET cur == Cell(df, "Volume", index)
             sum == SumCells(df, "Volume", index - VolumeLookback + 1, index + 1)
             num == IF sum > 0 THEN 10 * VolumeLookback * cur ELSE 10
             den == IF sum > 0 THEN sum ELSE 1
         IN Min2(IF num >= 20 * den THEN 9
                 ELSE IF num >= 15 * den THEN 8
                 ELSE IF num >= 12 * den THEN 7
                 ELSE IF num >= 8 * den THEN 6
                 ELSE 4, ConfidenceCap)

\* BaseStrategy.calculate_volume_confidence, in tenths.  volume_ratio is
\* current_volume / (sum / 20); ratio >= k/10 is 200 * current >= k * sum.
\* Everything is inside its try: df.columns of an object that is no
\* DataFrame and .iloc[index] past the last bar raise, and the except
\* returns 0.5.
VolumeConfidence(df, index) ==
    IF df.kind # "frame" THEN NeutralConfidence
    ELSE IF index < VolumeLookback \/ "Volume" \notin df.cols THEN NeutralConfidence
    ELSE IF index >= Len0(df) THEN NeutralConfidence
    ELSE LET cur == Cell(df, "Volume", index)
             sum == SumCells(df, "Volume", index - VolumeLookback, index)
             num == IF sum > 0 THEN 10 * VolumeLookback * cur ELSE 10
             den == IF sum > 0 THEN sum ELSE 1
         IN Min2(IF num >= 20 * den THEN 9
                 ELSE IF num >= 15 * den THEN 8
                 ELSE IF num >= 12 * den THEN 7
                 ELSE IF num >= 8 * den THEN 6
                 ELSE 4, ConfidenceCap)

\* ------------------------------------------------------------------------
\* Strategies (patterns.py)
\* ------------------------------------------------------------------------
\* df[col] = vals: the column is added to (or replaced in) the frame itself
WithColumn(df, col, vals) ==
    [df EXCEPT !.cols = @ \cup {col},
               !.base = [@ EXCEPT ![col] = vals.base],
               !.tail = [j \in 1..Len(df.tail) |->
                            [df.tail[j] EXCEPT ![col] = vals.tail[j]]]]

\* the candidate of bar i with its confidence left as the sum, not capped
GoldenCandidateNoCap(df, symbol, i) ==
    LET current_price == Cell(df, "Close", i)
        vc == VolumeConfidence(df, i)
    IN MakeSignal(IndexAt(df, i), symbol, "Golden_Cross", "BUY",
                  100 * current_price, Cell(df, "ema_50", i) * GoldenStopFactor,
                  current_price * GoldenTargetFactor,
                  IF current_price > Cell(df, "ema_200", i)
                  THEN vc + GoldenBonus ELSE vc)

\* the candidate GoldenCrossStrategy.scan builds for bar i
GoldenCandidate(df, symbol, i) ==
    LET current_price == Cell(df, "Close", i)
        stop_loss == Cell(df, "ema_50", i) * GoldenStopFactor
        target == current_price * GoldenTargetFactor
        vc == VolumeConfidence(df, i)
        confidence == IF current_price > Cell(df, "ema_200", i)
                      THEN vc + GoldenBonus ELSE vc
    IN MakeSignal(IndexAt(df, i), symbol, "Golden_Cross", "BUY",
                  100 * current_price, stop_loss, target,
                  Min2(confidence, ConfidenceCap))

\* the crossing test without its look at the bar before
GoldenCrossAtNoPrevious(df, i) ==
    Cell(df, "ema_50", i) > Cell(df, "ema_200", i)

\* the crossing test of GoldenCrossStrategy.scan at bar i
GoldenCrossAt(df, i) ==
    /\ Cell(df, "ema_50", i) > Cell(df, "ema_200", i)
    /\ Cell(df, "ema_50", i - 1) <= Cell(df, "ema_200", i - 1)

RECURSIVE GoldenLoop(_, _, _, _)
\* for i in range(200, len(df)) of GoldenCrossStrategy.scan
GoldenLoop(df, symbol, i, signals) ==
    IF i >= Len0(df) THEN signals
    ELSE IF GoldenCrossAt(df, i)
         THEN LET signal == GoldenCandidate(df, symbol, i)
              IN GoldenLoop(df, symbol, i + 1,
                            IF ValidateSignal(signal)
                            THEN Append(signals, signal) ELSE signals)
         ELSE GoldenLoop(df, symbol, i + 1, signals)

\* GoldenCrossStrategy.scan.  ewm holds what df['Close'].ewm(span).mean()
\* yields for span 50 (e50) and span 200 (e200); it is read only for a
\* column the frame lacks.  The result tells whether the call raised, the
\* list returned and the frame as the call leaves it.
GoldenCrossScan(df, symbol, ewm) ==
    IF df.kind # "frame"
    THEN [raised |-> TRUE, signals |-> <<>>, df |-> df]
    ELSE IF "Close" \notin df.cols \/ Len0(df) < GoldenMinBars
    THEN [raised |-> FALSE, signals |-> <<>>, df |-> df]
    ELSE LET d1 == IF "ema_50" \notin df.cols
                   THEN WithColumn(df, "ema_50", ewm.e50) ELSE df
             d2 == IF "ema_200" \notin d1.cols
                   THEN WithColumn(d1, "ema_200", ewm.e200) ELSE d1
         IN [raised |-> FALSE,
             signals |-> GoldenLoop(d2, symbol, GoldenMinBars, <<>>),
             df |-> d2]

\* the breakout test with bar i itself inside the window of recent highs
BreakoutAtWindowWithCurrent(df, i) ==
    LET current_price == 100 * Cell(df, "Close", i)
    IN \A j \in (i - BreakoutLookback + 1)..i :
          current_price > Cell(df, "High", j) * BreakoutFactor

\* the breakout test of SimpleBreakoutStrategy.scan at bar i:
\* current_price > recent_high * 1.01, recent_high the greatest High of the
\* bars i-20 .. i-1, which is to exceed 1.01 times each of these Highs
BreakoutAt(df, i) ==
    LET current_price == 100 * Cell(df, "Close", i)
    IN \A j \in (i - BreakoutLookback)..(i - 1) :
          current_price > Cell(df, "High", j) * BreakoutFactor

\* the candidate of bar i with its target one risk above the entry, not two
BreakoutCandidateSingleRisk(df, symbol, i) ==
    LET current_price == 100 * Cell(df, "Close", i)
        stop_loss == MinOf({Cell(df, "Low", j) : j \in (i - StopLookback)..(i - 1)})
                        * BreakoutStopFactor
    IN MakeSignal(IndexAt(df, i), symbol, "Simple_Breakout", "BUY",
                  current_price, stop_loss, current_price + (current_price - stop_loss),
                  VolumeConfidence(df, i))

\* the candidate SimpleBreakoutStrategy.scan builds for bar i
BreakoutCandidate(df, symbol, i) ==
    LET current_price == 100 * Cell(df, "Close", i)
        stop_loss == MinOf({Cell(df, "Low", j) : j \in (i - StopLookback)..(i - 1)})
                        * BreakoutStopFactor
        target == current_price + (current_price - stop_loss) * 2
    IN MakeSignal(IndexAt(df, i), symbol, "Simple_Breakout", "BUY",
                  current_price, stop_loss, target, VolumeConfidence(df, i))

\* the bars i of range(lookback_period, len(df)) that pass the breakout test
BreakoutBars(df) ==
    {i \in BreakoutLookback..(Len0(df) - 1) : BreakoutAt(df, i)}

RECURSIVE BreakoutLoop(_, _, _, _)
\* for i in range(lookback_period, len(df)) of SimpleBreakoutStrategy.scan,
\* stepping from one bar that passes the breakout test to the next (bars
\* holds those still ahead); a missing Low column raises KeyError at the
\* first of them, which ends the loop with the signals found so far
BreakoutLoop(df, symbol, bars, signals) ==
    IF bars = {} THEN signals
    ELSE IF "Low" \notin df.cols THEN signals
    ELSE LET i == MinOf(bars)
             signal == BreakoutCandidate(df, symbol, i)
         IN BreakoutLoop(df, symbol, bars \ {i},
                         IF ValidateSignal(signal)
                         THEN Append(signals, signal) ELSE signals)

\* the length test with the lookback period not doubled
BreakoutTooShortSingle(df) == Len0(df) < BreakoutLookback

\* len(df) < self.lookback_period * 2
BreakoutTooShort(df) == Len0(df) < BreakoutLookback * 2

\* SimpleBreakoutStrategy.scan.  A missing High or Close column raises
\* KeyError at the first bar, inside the try: the empty list is returned.
BreakoutScan(df, symbol) ==
    IF df.kind # "frame"
    THEN [raised |-> TRUE, signals |-> <<>>, df |-> df]
    ELSE IF BreakoutTooShort(df)
    THEN [raised |-> FALSE, signals |-> <<>>, df |-> df]
    ELSE IF "High" \notin df.cols \/ "Close" \notin df.cols
    THEN [raised |-> FALSE, signals |-> <<>>, df |-> df]
    ELSE [raised |-> FALSE,
          signals |-> BreakoutLoop(df, symbol, BreakoutBars(df), <<>>),
          df |-> df]

\* ALL_STRATEGIES, in order
StrategyNames == <<"Golden_Cross", "Simple_Breakout">>

\* strategy.scan(df, symbol) for the strategy at position k of ALL_STRATEGIES
StrategyScan(k, df, symbol, ewm) ==
    IF StrategyNames[k] = "Golden_Cross" THEN GoldenCrossScan(df, symbol, ewm)
    ELSE BreakoutScan(df, symbol)

\* ------------------------------------------------------------------------
\* StrategyScanner (signals.py)
\* ------------------------------------------------------------------------
\* A symbol is the sequence of its characters.
UpperChar(c) ==
    CASE c = "a" -> "A" [] c = "b" -> "B" [] c = "n" -> "N" [] c = "s" -> "S"
      [] c = "x" -> "X" [] c = "y" -> "Y" [] OTHER -> c

RECURSIVE RemoveNS(_)
\* symbol.replace('.NS', '')
RemoveNS(s) ==
    IF Len(s) = 0 THEN <<>>
    ELSE IF Len(s) >= 3 /\ SubSeq(s, 1, 3) = <<".", "N", "S">>
         THEN RemoveNS(SubSeq(s, 4, Len(s)))
         ELSE <<Head(s)>> \o RemoveNS(Tail(s))

\* symbol.replace('.NS', '').upper()
CleanSymbol(symbol) ==
    LET r == RemoveNS(symbol) IN [j \in 1..Len(r) |-> UpperChar(r[j])]

RECURSIVE RunStrategies(_, _, _, _, _)
\* the strategy loop of scan_single_stock from strategy k on: a scan that
\* raises is logged and skipped.  Yields all_signals and the frame as the
\* loop leaves it.
RunStrategies(k, df, clean_symbol, ewm, acc) ==
    IF k > Len(StrategyNames) THEN [signals |-> acc, df |-> df]
    ELSE LET r == StrategyScan(k, df, clean_symbol, ewm)
         IN RunStrategies(k + 1, r.df, clean_symbol, ewm,
                          IF r.raised THEN acc ELSE acc \o r.signals)

\* the key of the duplicate test of scan_single_stock
DedupKey(s) == <<s.symbol, s.setup, s.date.day>>

RECURSIVE Dedup(_, _, _)
\* the duplicate removal of scan_single_stock: the first signal of each
\* key is kept
Dedup(list, seen, unique) ==
    IF list = <<>> THEN unique
    ELSE LET s == Head(list)
         IN IF DedupKey(s) \in seen THEN Dedup(Tail(list), seen, unique)
            ELSE Dedup(Tail(list), seen \cup {DedupKey(s)}, Append(unique, s))

\* StrategyScanner.scan_single_stock.  signal.date.date() raises
\* AttributeError when the date is no Timestamp, outside any try.
ScanSingleStock(df, symbol, ewm) ==
    LET clean_symbol == CleanSymbol(symbol)
        run == RunStrategies(1, df, clean_symbol, ewm, <<>>)
    IN IF \E j \in 1..Len(run.signals) : ~run.signals[j].date.isTs
       THEN [raised |-> TRUE, signals |-> <<>>, df |-> run.df]
       ELSE [raised |-> FALSE, signals |-> Dedup(run.signals, {}, <<>>), df |-> run.df]

\* a < b for the sort keys of the scanner: s.date, s.confidence and
\* (s.confidence, s.risk_reward)
KeyLess(key, a, b) ==
    CASE key = "date" ->
            \/ a.date.day < b.date.day
            \/ a.date.day = b.date.day /\ a.date.slot < b.date.slot
      [] key = "confidence" -> a.confidence < b.confidence
      [] OTHER ->
            \/ a.confidence < b.confidence
            \/ a.confidence = b.confidence /\ FracLess(a.risk_reward, b.risk_reward)

\* x put into a list sorted by descending key, before the elements whose
\* key equals its own
InsertDescBeforeEqual(sorted, x, key) ==
    LET before == {j \in 1..Len(sorted) : KeyLess(key, x, sorted[j])}
        n == IF before = {} THEN 0 ELSE MaxOf(before)
    IN SubSeq(sorted, 1, n) \o <<x>> \o SubSeq(sorted, n + 1, Len(sorted))

\* x put into a list sorted by descending key, behind the elements whose
\* key is not less than its own
InsertDesc(sorted, x, key) ==
    LET before == {j \in 1..Len(sorted) : ~KeyLess(key, sorted[j], x)}
        n == IF before = {} THEN 0 ELSE MaxOf(before)
    IN SubSeq(sorted, 1, n) \o <<x>> \o SubSeq(sorted, n + 1, Len(sorted))

RECURSIVE SortInto(_, _, _)
SortInto(list, sorted, key) ==
    IF list = <<>> THEN sorted
    ELSE SortInto(Tail(list), InsertDesc(sorted, Head(list), key), key)

\* list.sort(key=.., reverse=True): stable, equal keys keep their order
SortDesc(list, key) == SortInto(list, <<>>, key)

\* list[:m] of Python with the bound one too far
PrefixOneMore(list, m) ==
    SubSeq(list, 1, Min2(m + 1, Len(list)))

\* list[:m] of Python: the first m elements, all but the last -m for m < 0
Prefix(list, m) ==
    IF m >= 0 THEN SubSeq(list, 1, Min2(m, Len(list)))
    ELSE SubSeq(list, 1, Len(list) + m)

RECURSIVE SymbolOrder(_, _)
\* the keys of symbol_groups in insertion order: the symbols of the list
\* in the order of their first signal
SymbolOrder(list, order) ==
    IF list = <<>> THEN order
    ELSE IF \E j \in 1..Len(order) : order[j] = Head(list).symbol
         THEN SymbolOrder(Tail(list), order)
         ELSE SymbolOrder(Tail(list), Append(order, Head(list).symbol))

\* symbol_groups[symbol]: the signals of the symbol, in the order of the list
SymbolGroup(list, symbol) == SelectSeq(list, LAMBDA s : s.symbol = symbol)

RECURSIVE TopOfGroupsUnsorted(_, _, _)
\* the loop over symbol_groups with the groups cut as they stand
TopOfGroupsUnsorted(quality, symbols, max_signals_per_stock) ==
    IF symbols = <<>> THEN <<>>
    ELSE Prefix(SymbolGroup(quality, Head(symbols)), max_signals_per_stock)
         \o TopOfGroupsUnsorted(quality, Tail(symbols), max_signals_per_stock)

RECURSIVE TopOfGroups(_, _, _)
\* final_signals after the loop over symbol_groups: each group sorted by
\* (confidence, risk_reward), most first, and cut to max_signals_per_stock
TopOfGroups(quality, symbols, max_signals_per_stock) ==
    IF symbols = <<>> THEN <<>>
    ELSE Prefix(SortDesc(SymbolGroup(quality, Head(symbols)), "confidence_risk_reward"),
                max_signals_per_stock)
         \o TopOfGroups(quality, Tail(symbols), max_signals_per_stock)

\* filter_signals without the risk/reward threshold
FilterSignalsConfidenceOnly(signals, min_confidence, min_risk_reward, max_signals_per_stock) ==
    LET quality_signals ==
            SelectSeq(signals, LAMBDA s : s.confidence >= min_confidence)
        final_signals ==
            TopOfGroups(quality_signals, SymbolOrder(quality_signals, <<>>),
                        max_signals_per_stock)
    IN SortDesc(final_signals, "confidence")

\* filter_signals with its final sort by (confidence, risk_reward)
FilterSignalsFinalSortByBoth(signals, min_confidence, min_risk_reward, max_signals_per_stock) ==
    LET quality_signals ==
            SelectSeq(signals, LAMBDA s : /\ s.confidence >= min_confidence
                                          /\ FracGeq(s.risk_reward, min_risk_reward))
        final_signals ==
            TopOfGroups(quality_signals, SymbolOrder(quality_signals, <<>>),
                        max_signals_per_stock)
    IN SortDesc(final_signals, "confidence_risk_reward")

\* StrategyScanner.filter_signals
FilterSignals(signals, min_confidence, min_risk_reward, max_signals_per_stock) ==
    LET quality_signals ==
            SelectSeq(signals, LAMBDA s : /\ s.confidence >= min_confidence
                                          /\ FracGeq(s.risk_reward, min_risk_reward))
        final_signals ==
            TopOfGroups(quality_signals, SymbolOrder(quality_signals, <<>>),
                        max_signals_per_stock)
    IN SortDesc(final_signals, "confidence")

\* ------------------------------------------------------------------------
\* Backtester (backtester.py)
\* ------------------------------------------------------------------------
\* round(num / den, 0) for den > 0: the nearest integer, a tie to the even
\* one.  Metrics are kept as integers: percentages and the Sharpe ratio in
\* hundredths, years in tenths.
Round(num, den) ==
    LET q == num \div den
        r == num - q * den
    IN IF 2 * r < den THEN q
       ELSE IF 2 * r > den THEN q + 1
       ELSE IF q % 2 = 0 THEN q ELSE q + 1

\* df.empty: no rows or no columns
IsEmpty(df) == Len0(df) = 0 \/ df.cols = {}

\* the guard of calculate_simple_returns with its length test left out
SeriesTooShortEmptyOnly(df) == IsEmpty(df)

\* df.empty or len(df) < 2
SeriesTooShort(df) == IsEmpty(df) \/ Len0(df) < MinBacktestBars

\* df['Close'].expanding().max() at bar t
Peak(df, t) == MaxOf({Cell(df, "Close", j) : j \in 0..t})

\* returns.std() > 0 for returns = df['Close'].pct_change().dropna(): the
\* sample deviation of fewer than two changes is NaN, that of equal
\* changes is 0
VolatilityPositive(df) ==
    /\ Len0(df) >= 3
    /\ \E i, j \in 1..(Len0(df) - 1) :
          Cell(df, "Close", i) * Cell(df, "Close", j - 1)
              # Cell(df, "Close", j) * Cell(df, "Close", i - 1)

\* the metrics calculate_simple_returns computes past its guard, for a
\* frame that has a Close column of positive prices and at least one bar.
\* The Sharpe ratio is kept by its sign: annualized_return has the sign of
\* end_price - start_price and volatility is not negative.
SimpleReturnsMetrics(df) ==
    LET n == Len0(df)
        start_price == Cell(df, "Close", 0)
        end_price == Cell(df, "Close", n - 1)
        sign == IF end_price > start_price THEN 1
                ELSE IF end_price < start_price THEN -1 ELSE 0
    IN { <<"Return [%]", Round((end_price - start_price) * 10000, start_price)>>,
         <<"Sharpe Ratio", IF VolatilityPositive(df) THEN sign ELSE 0>>,
         <<"Max. Drawdown [%]",
           MaxOf({Round((Peak(df, t) - Cell(df, "Close", t)) * 10000, Peak(df, t)) :
                     t \in 0..(n - 1)})>>,
         <<"Period (Years)", Round(n * 10, BarsPerYear)>> }

\* calculate_simple_returns.  Everything is inside its try: df.empty of an
\* object that is no DataFrame, df['Close'] of a frame without that column
\* and .iloc[0] of a frame without rows raise, and the except returns {}.
CalculateSimpleReturns(df) ==
    IF df.kind # "frame" THEN {}
    ELSE IF SeriesTooShort(df) THEN {}
    ELSE IF "Close" \notin df.cols \/ Len0(df) = 0 THEN {}
    ELSE SimpleReturnsMetrics(df)

\* the dict run_comprehensive_backtest builds (a dict is the set of its
\* (key, value) pairs, {} the empty one); generated_at is the time of the call
BacktestResults(symbol, benchmark) ==
    [symbol |-> symbol,
     benchmark |-> benchmark,
     strategies |-> IF benchmark # {} THEN {<<"Buy_Hold", benchmark>>} ELSE {},
     generated_at |-> "now"]

\* run_comprehensive_backtest
RunComprehensiveBacktest(df, symbol) ==
    BacktestResults(symbol, CalculateSimpleReturns(df))

\* ------------------------------------------------------------------------
\* Indicators (indicators.py)
\* ------------------------------------------------------------------------
\* A float of a derived column is a number (an exact fraction, not
\* negative), +inf or NaN.
FNum(n, d) == [kind |-> "num", val |-> Frac(n, d)]

FInf == [kind |-> "inf", val |-> Frac(0, 1)]

FNaN == [kind |-> "nan", val |-> Frac(0, 1)]

\* a / b of two Series floats that are not negative, a = an / 14 and
\* b = bn / 14: division by 0.0 raises nothing, it yields inf, and NaN
\* for 0.0 / 0.0
SeriesDiv(an, bn) ==
    IF bn = 0 THEN (IF an = 0 THEN FNaN ELSE FInf)
    ELSE FNum(an, bn)

\* delta = data['Close'].diff() at bar j >= 1 (NaN at bar 0)
Delta(df, j) == Cell(df, "Close", j) - Cell(df, "Close", j - 1)

\* delta.where(delta > 0, 0) at bar j: the NaN of bar 0 is replaced as well
GainAt(df, j) == IF j >= 1 /\ Delta(df, j) > 0 THEN Delta(df, j) ELSE 0

\* -delta.where(delta < 0, 0) at bar j
LossAt(df, j) == IF j >= 1 /\ Delta(df, j) < 0 THEN -Delta(df, j) ELSE 0

RECURSIVE WindowSum(_, _, _, _)
\* the sum behind .rolling(window=14).mean() at bar i, of the gains or of
\* the losses of the bars a .. i
WindowSum(df, column, a, i) ==
    IF a > i THEN 0
    ELSE (IF column = "gain" THEN GainAt(df, a) ELSE LossAt(df, a))
         + WindowSum(df, column, a + 1, i)

\* 100 - (100 / (1 + rs))
RsiOf(rs) ==
    CASE rs.kind = "nan" -> FNaN
      [] rs.kind = "inf" -> FNum(100, 1)
      [] OTHER -> FNum(100 * rs.val.num, rs.val.num + rs.val.den)

\* data['rsi'] at bar i: NaN until the window of 14 bars is filled
RsiAt(df, i) ==
    IF i < RsiWindow - 1 THEN FNaN
    ELSE LET gain == WindowSum(df, "gain", i - RsiWindow + 1, i)
             loss == WindowSum(df, "loss", i - RsiWindow + 1, i)
         IN RsiOf(SeriesDiv(gain, loss))

RequiredCols == {"Open", "High", "Low", "Close", "Volume"}

\* the columns add_common_indicators adds
IndicatorCols ==
    {"sma_20", "sma_50", "sma_200", "ema_20", "ema_50", "ema_200", "rsi",
     "volume_sma20", "volume_ratio", "price_above_sma20", "price_above_sma50",
     "volatility"}

\* the frame returned as it came: its columns, and no rsi column
Unchanged(df) == [kind |-> df.kind, n |-> df.n, cols |-> df.cols, rsi |-> <<>>]

\* add_common_indicators, by the length and the columns of the frame it
\* returns and the values of its rsi column (1-based here: rsi[i + 1] is
\* the value at bar i).  df.copy() of an object that is no DataFrame
\* raises inside the try and df is returned; a frame that lacks a
\* required column is returned as copied.
AddCommonIndicators(df) ==
    IF df.kind # "frame" THEN Unchanged(df)
    ELSE IF ~(RequiredCols \subseteq df.cols) THEN Unchanged(df)
    ELSE [kind |-> "frame", n |-> df.n, cols |-> df.cols \cup IndicatorCols,
          rsi |-> [k \in 1..df.n |-> RsiAt(df, k - 1)]]

\* the golden_cross flag with the same-bar comparison alone
GoldenFlagAtNoShift(df, i) ==
    Cell(df, "ema_50", i) > Cell(df, "ema_200", i)

\* data['golden_cross'] at bar i: shift(1) puts NaN at bar 0, and a
\* comparison with NaN is False
GoldenFlagAt(df, i) ==
    /\ Cell(df, "ema_50", i) > Cell(df, "ema_200", i)
    /\ i >= 1
    /\ Cell(df, "ema_50", i - 1) <= Cell(df, "ema_200", i - 1)

\* data['death_cross'] at bar i
DeathFlagAt(df, i) ==
    /\ Cell(df, "ema_50", i) < Cell(df, "ema_200", i)
    /\ i >= 1
    /\ Cell(df, "ema_50", i - 1) >= Cell(df, "ema_200", i - 1)

\* data['higher_high'] at bar i
HigherHighAt(df, i) == i >= 1 /\ Cell(df, "High", i) > Cell(df, "High", i - 1)

\* data['higher_low'] at bar i
HigherLowAt(df, i) == i >= 1 /\ Cell(df, "Low", i) > Cell(df, "Low", i - 1)

\* the frame returned as it came: its columns, and no flag column
Unflagged(df) ==
    [kind |-> df.kind, n |-> df.n, cols |-> df.cols, golden_cross |-> <<>>,
     death_cross |-> <<>>, higher_high |-> <<>>, higher_low |-> <<>>]

\* detect_pattern_conditions, by the length and the columns of the frame
\* it returns and the values of its flag columns (1-based here: flag[i + 1]
\* is the value at bar i).  df.copy() of an object that is no DataFrame
\* raises inside the try, and so does data['High'] or data['Low'] of a
\* frame that lacks the column: df is returned, without the flags already
\* written to the copy.  The frames here carry no volume_ratio and no rsi
\* column, so the flags made of them are not added.
DetectPatternConditions(df) ==
    IF df.kind # "frame" THEN Unflagged(df)
    ELSE IF "High" \notin df.cols \/ "Low" \notin df.cols THEN Unflagged(df)
    ELSE LET crosses == "ema_50" \in df.cols /\ "ema_200" \in df.cols
         IN [kind |-> "frame", n |-> df.n,
             cols |-> df.cols \cup {"higher_high", "higher_low"}
                         \cup (IF crosses THEN {"golden_cross", "death_cross"} ELSE {}),
             golden_cross |-> IF crosses THEN [k \in 1..df.n |-> GoldenFlagAt(df, k - 1)]
                              ELSE <<>>,
             death_cross |-> IF crosses THEN [k \in 1..df.n |-> DeathFlagAt(df, k - 1)]
                             ELSE <<>>,
             higher_high |-> [k \in 1..df.n |-> HigherHighAt(df, k - 1)],
             higher_low |-> [k \in 1..df.n |-> HigherLowAt(df, k - 1)]]

\* ------------------------------------------------------------------------
\* Input frames
\* ------------------------------------------------------------------------
Bar(c, h, l, v, e50, e200) ==
    [x \in ColNames |->
        CASE x = "Close" -> c [] x = "High" -> h [] x = "Low" -> l
          [] x = "Volume" -> v [] x = "ema_50" -> e50 [] OTHER -> e200]

FlatBar == Bar(100, 100, 98, 1000, 100, 100)

TailBars ==
    { FlatBar,
      Bar(102, 103, 100, 3000, 100, 100),
      Bar(106, 106, 102, 1000, 100, 100),
      Bar(100, 100, 98, 1000, 101, 100),
      Bar(102, 103, 100, 3000, 101, 100),
      Bar(100, 100, 98, 1000, 90, 89),
      Bar(100, 100, 98, 1000, 110, 100),
      Bar(100, 100, 98, 500, 99, 100) }

Tails == [1..TailLen -> TailBars]

Lengths == { BreakoutLookback * 2 - 1, BreakoutLookback * 2, BreakoutLookback * 2 + 1,
             GoldenMinBars - 1, GoldenMinBars, GoldenMinBars + 1, GoldenMinBars + 2 }

ColumnSets == { ColNames,
                ColNames \ {"Volume"},
                ColNames \ {"ema_50", "ema_200"},
                ColNames \ {"Close"},
                ColNames \ {"Low"} }

\* a frame keeps nothing for a column it lacks
StripBar(b, cols) == [x \in ColNames |-> IF x \in cols THEN b[x] ELSE 0]

Frame(n, tail, cols, index) ==
    [kind |-> "frame", n |-> n, base |-> StripBar(FlatBar, cols),
     tail |-> [j \in 1..Len(tail) |-> StripBar(tail[j], cols)],
     cols |-> cols, index |-> index]

NoFrame ==
    [kind |-> "none", n |-> 0, base |-> StripBar(FlatBar, {}), tail |-> <<>>,
     cols |-> {}, index |-> "daily"]

\* What df['Close'].ewm(span=..).mean() can yield: an exponentially weighted
\* mean is a weighted average of the closes seen so far, hence equal to
\* the close on the constant run and between the least and the greatest
\* close afterwards.  The model draws it from points of that range: the
\* closes of the frame and the unit above the least of them.
EwmColumns(df) ==
    LET closes == {df.base["Close"]} \cup {df.tail[j]["Close"] : j \in 1..Len(df.tail)}
        points == closes \cup {x \in {MinOf(closes) + 1} : x <= MaxOf(closes)}
    IN [base : {df.base["Close"]}, tail : [1..Len(df.tail) -> points]]

NoEwm == [base |-> 0, tail |-> <<>>]

\* the outcomes of the two ewm calls GoldenCrossStrategy.scan makes on df
EwmChoices(df) ==
    IF df.kind = "frame" /\ "Close" \in df.cols /\ Len0(df) >= GoldenMinBars
    THEN [e50 : IF "ema_50" \in df.cols THEN {NoEwm} ELSE EwmColumns(df),
          e200 : IF "ema_200" \in df.cols THEN {NoEwm} ELSE EwmColumns(df)]
    ELSE {[e50 |-> NoEwm, e200 |-> NoEwm]}

\* ------------------------------------------------------------------------
\* State
\* ------------------------------------------------------------------------
VARIABLES
    max_workers,   \* StrategyScanner.max_workers
    pc,            \* where scan_multiple_stocks stands
    stock_data,    \* the mapping handed to scan_multiple_stocks, in dict order
    task,          \* the per-asset futures of the pool
    all_signals,   \* all_signals of scan_multiple_stocks
    collected,     \* the futures as_completed has yielded
    result,        \* what scan_multiple_stocks returned
    spc,           \* a single strategy call: "init", then "done"
    sdf_in,        \* the frame as handed to the strategy
    sdf,           \* the frame as the strategy call leaves it
    sname,         \* the strategy called
    sout,          \* what strategy.scan returned
    fpc,           \* a single filter_signals call: "init", then "done"
    fin,           \* the list handed to filter_signals
    fargs,         \* its thresholds
    fout,          \* what filter_signals returned
    vpc,           \* a single validate_signal call: "init", then "done"
    vsignal,       \* the signal handed to validate_signal
    vout,          \* what validate_signal returned
    bpc,           \* a single backtester call: "init", then "done" or "raised"
    bdf,           \* the frame handed to the backtester
    breturns,      \* what calculate_simple_returns returned
    bresults,      \* what run_comprehensive_backtest returned
    ipc,           \* a single indicators.py call: "init", then "done" or "flagged"
    idf,           \* the frame handed to add_common_indicators
    idata,         \* what add_common_indicators returned
    cpc,           \* a single calculate_volume_confidence call: "init", then "done"
    cdf,           \* the frame handed to calculate_volume_confidence
    cindex,        \* the index handed to it
    cout           \* what it returned

scanVars == <<max_workers, pc, stock_data, task, all_signals, collected, result>>
stratVars == <<spc, sdf_in, sdf, sname, sout>>
filterVars == <<fpc, fin, fargs, fout>>
validateVars == <<vpc, vsignal, vout>>
backtestVars == <<bpc, bdf, breturns, bresults>>
indicatorVars == <<ipc, idf, idata>>
confidenceVars == <<cpc, cdf, cindex, cout>>
unitVars == <<validateVars, backtestVars, indicatorVars, confidenceVars>>
vars == <<scanVars, stratVars, filterVars, unitVars>>

ScanIdle ==
    /\ max_workers = DefaultMaxWorkers
    /\ pc = "idle"
    /\ stock_data = <<>>
    /\ task = <<>>
    /\ all_signals = <<>>
    /\ collected = {}
    /\ result = <<>>

StratIdle ==
    /\ spc = "idle"
    /\ sdf_in = NoFrame
    /\ sdf = NoFrame
    /\ sname = "none"
    /\ sout = <<>>

FilterIdle ==
    /\ fpc = "idle"
    /\ fin = <<>>
    /\ fargs = [min_confidence |-> 0, min_risk_reward |-> Frac(0, 1),
                max_signals_per_stock |-> 0]
    /\ fout = <<>>

\* Signal(date, 'ABC', 'Golden_Cross', 'BUY', 100.0, 95.0, 115.0, 0.5)
IdleSignal ==
    MakeSignal([isTs |-> TRUE, day |-> 0, slot |-> 0], "ABC", "Golden_Cross", "BUY",
               10000, 9500, 11500, NeutralConfidence)

ValidateIdle ==
    /\ vpc = "idle"
    /\ vsignal = IdleSignal
    /\ vout = FALSE

BacktestIdle ==
    /\ bpc = "idle"
    /\ bdf = NoFrame
    /\ breturns = {}
    /\ bresults = BacktestResults("Unknown", {})

IndicatorIdle ==
    /\ ipc = "idle"
    /\ idf = NoFrame
    /\ idata = Unchanged(NoFrame)

ConfidenceIdle ==
    /\ cpc = "idle"
    /\ cdf = NoFrame
    /\ cindex = 0
    /\ cout = NeutralConfidence

UnitIdle == ValidateIdle /\ BacktestIdle /\ IndicatorIdle /\ ConfidenceIdle

\* ------------------------------------------------------------------------
\* scan_multiple_stocks on a pool of max_workers threads
\* ------------------------------------------------------------------------
Keys == { <<"A", "B">>, <<"A", "B", ".", "N", "S">>, <<"x", "y">> }

\* a frame whose bar 200 is a golden cross and a breakout and whose bar
\* 201 is a breakout
ScanTail == <<Bar(102, 103, 100, 3000, 101, 100), Bar(106, 106, 102, 1000, 100, 100)>>

ScanFrames ==
    {NoFrame, Frame(GoldenMinBars + 2, <<FlatBar, FlatBar>>,
                    ColNames \ {"ema_50", "ema_200"}, "daily")}
    \cup {Frame(GoldenMinBars + 2, ScanTail, ColNames, ix) :
             ix \in {"daily", "intraday", "range"}}

\* the mappings handed to scan_multiple_stocks: a dict, so no key twice
StockDataInputs ==
    {sd \in UNION {[1..n -> [symbol : Keys, df : ScanFrames]] : n \in 0..MaxAssets} :
        \A i, j \in 1..Len(sd) : sd[i].symbol = sd[j].symbol => i = j}

Init ==
    /\ StratIdle
    /\ FilterIdle
    /\ UnitIdle
    /\ max_workers \in 1..DefaultMaxWorkers
    /\ pc = "idle"
    /\ stock_data = <<>>
    /\ task = <<>>
    /\ all_signals = <<>>
    /\ collected = {}
    /\ result = <<>>

\* scan_multiple_stocks is called: every asset is submitted to the pool
Submit ==
    /\ pc = "idle"
    /\ \E sd \in StockDataInputs :
          /\ stock_data' = sd
          /\ task' = [k \in 1..Len(sd) |-> [status |-> "pending", signals |-> <<>>]]
    /\ pc' = "collect"
    /\ UNCHANGED <<max_workers, all_signals, collected, result, stratVars, filterVars, unitVars>>

\* the threads of the pool that hold a task
Busy == {k \in 1..Len(task) : task[k].status \in {"running", "hung"}}

\* a free thread of the pool takes the oldest task of the work queue
CanTaskStart(k) ==
    /\ k \in 1..Len(task)
    /\ task[k].status = "pending"
    /\ \A j \in 1..(k - 1) : task[j].status # "pending"
    /\ Cardinality(Busy) < max_workers

TaskStart(k) ==
    /\ CanTaskStart(k)
    /\ task' = [task EXCEPT ![k].status = "running"]
    /\ UNCHANGED <<max_workers, pc, stock_data, all_signals, collected, result,
                   stratVars, filterVars, unitVars>>

\* asset k is being scanned on a thread of the pool
Running(k) == k \in 1..Len(task) /\ task[k].status = "running"

\* scan_single(symbol, df) runs to its end on its thread: the future holds
\* the list returned or the exception raised
TaskRun(k) ==
    /\ Running(k)
    /\ \E ewm \in EwmChoices(stock_data[k].df) :
          LET r == ScanSingleStock(stock_data[k].df, stock_data[k].symbol, ewm)
          IN /\ task' = [task EXCEPT ![k] =
                            [status |-> IF r.raised THEN "raised" ELSE "done",
                             signals |-> r.signals]]
             /\ stock_data' = [stock_data EXCEPT ![k].df = r.df]
    /\ UNCHANGED <<max_workers, pc, all_signals, collected, result,
                   stratVars, filterVars, unitVars>>

\* the scan of asset k never comes back
TaskHang(k) ==
    /\ Running(k)
    /\ task' = [task EXCEPT ![k].status = "hung"]
    /\ UNCHANGED <<max_workers, pc, stock_data, all_signals, collected, result,
                   stratVars, filterVars, unitVars>>

\* future.result(timeout=60) of a future as_completed has yielded: the
\* future is finished, so the call returns its list or raises its
\* exception at once
FutureResult(t) ==
    [raised |-> t.status = "raised", signals |-> t.signals]

\* the try / except of the as_completed loop with an except that lets the
\* exception of the future through
HandleCompletedNoExcept(all, r) ==
    IF r.raised THEN [escaped |-> TRUE, all |-> all]
    ELSE [escaped |-> FALSE, all |-> all \o r.signals]

\* the try / except of the as_completed loop: the list of the future is
\* appended to all_signals, its exception is logged
HandleCompleted(all, r) ==
    IF r.raised THEN [escaped |-> FALSE, all |-> all]
    ELSE [escaped |-> FALSE, all |-> all \o r.signals]

\* as_completed has a finished future to yield
CanCollect(k) ==
    /\ pc = "collect"
    /\ k \in 1..Len(task)
    /\ k \notin collected
    /\ task[k].status \in {"done", "raised"}

\* as_completed yields a finished future, whichever it finds
Collect(k) ==
    /\ CanCollect(k)
    /\ LET h == HandleCompleted(all_signals, FutureResult(task[k]))
       IN /\ all_signals' = h.all
          /\ pc' = IF h.escaped THEN "raised" ELSE pc
    /\ collected' = collected \cup {k}
    /\ UNCHANGED <<max_workers, stock_data, task, result, stratVars, filterVars, unitVars>>

\* as_completed has yielded every future: the pool shuts down, all_signals
\* is sorted by date, most recent first, and returned
CanReturn ==
    /\ pc = "collect"
    /\ collected = 1..Len(task)

Return ==
    /\ CanReturn
    /\ all_signals' = SortDesc(all_signals, "date")
    /\ result' = all_signals'
    /\ pc' = "returned"
    /\ UNCHANGED <<max_workers, stock_data, task, collected, stratVars, filterVars, unitVars>>

Next ==
    \/ Submit
    \/ \E k \in 1..MaxAssets : TaskStart(k)
    \/ \E k \in 1..MaxAssets : TaskRun(k)
    \/ \E k \in 1..MaxAssets : TaskHang(k)
    \/ \E k \in 1..MaxAssets : Collect(k)
    \/ Return

Spec == Init /\ [][Next]_vars

\* ------------------------------------------------------------------------
\* One strategy call on one frame
\* ------------------------------------------------------------------------
\* a bar no validation has looked at: its Low lies above its High and Close
UncheckedBar == Bar(100, 100, 110, 1000, 100, 100)

\* frames whose constant run is made of such bars
UncheckedFrames ==
    {[Frame(n, t, ColNames, "daily") EXCEPT !.base = UncheckedBar] :
        n \in {BreakoutLookback * 2, BreakoutLookback * 2 + 1}, t \in Tails}

StrategyFrames ==
    {NoFrame} \cup UncheckedFrames \cup
    {Frame(n, t, c, "daily") : n \in Lengths, t \in Tails, c \in ColumnSets}

StrategyInit ==
    /\ ScanIdle
    /\ UnitIdle
    /\ FilterIdle
    /\ spc = "init"
    /\ sdf_in \in StrategyFrames
    /\ sdf = sdf_in
    /\ sname = "none"
    /\ sout = <<>>

\* GoldenCrossStrategy().scan(df, "ABC")
CallGoldenCross ==
    /\ spc = "init"
    /\ \E ewm \in EwmChoices(sdf) :
          LET r == GoldenCrossScan(sdf, "ABC", ewm)
          IN /\ spc' = IF r.raised THEN "raised" ELSE "done"
             /\ sdf' = r.df
             /\ sout' = r.signals
    /\ sname' = "Golden_Cross"
    /\ UNCHANGED <<sdf_in, scanVars, filterVars, unitVars>>

\* SimpleBreakoutStrategy().scan(df, "ABC")
CallBreakout ==
    /\ spc = "init"
    /\ LET r == BreakoutScan(sdf, "ABC")
       IN /\ spc' = IF r.raised THEN "raised" ELSE "done"
          /\ sdf' = r.df
          /\ sout' = r.signals
    /\ sname' = "Simple_Breakout"
    /\ UNCHANGED <<sdf_in, scanVars, filterVars, unitVars>>

StrategyNext == CallGoldenCross \/ CallBreakout

StrategySpec == StrategyInit /\ [][StrategyNext]_vars

\* ------------------------------------------------------------------------
\* One filter_signals call on one list
\* ------------------------------------------------------------------------
\* a BUY signal entered at 100.00 with its stop at 95.00
FilterSignal(symbol, setup, confidence, target) ==
    MakeSignal([isTs |-> TRUE, day |-> 200, slot |-> 0], symbol, setup, "BUY",
               10000, 9500, target, confidence)

FilterUniverse ==
    {FilterSignal(<<"A", "B">>, setup, c, t) :
        setup \in {"Golden_Cross", "Simple_Breakout"}, c \in {6, 9}, t \in {11000, 11500}}
    \cup {FilterSignal(<<"X", "Y">>, "Golden_Cross", c, 11500) : c \in {6, 9}}
    \cup {FilterSignal(<<"A", "B">>, "Golden_Cross", 4, 11500),
          FilterSignal(<<"A", "B">>, "Golden_Cross", 9, 10500)}

\* the thresholds: min_confidence 0.5 and min_risk_reward 1.5 of the
\* signature, max_signals_per_stock up to its default 2
FilterArgs ==
    [min_confidence : {5}, min_risk_reward : {Frac(3, 2)},
     max_signals_per_stock : 0..2]

FilterInit ==
    /\ ScanIdle
    /\ UnitIdle
    /\ StratIdle
    /\ fpc = "init"
    /\ fin \in UNION {[1..n -> FilterUniverse] : n \in 0..MaxSignals}
    /\ fargs \in FilterArgs
    /\ fout = <<>>

\* scanner.filter_signals(signals, min_confidence, min_risk_reward,
\* max_signals_per_stock)
CallFilter ==
    /\ fpc = "init"
    /\ fout' = FilterSignals(fin, fargs.min_confidence, fargs.min_risk_reward,
                             fargs.max_signals_per_stock)
    /\ fpc' = "done"
    /\ UNCHANGED <<fin, fargs, scanVars, stratVars, unitVars>>

FilterNext == CallFilter

FilterSpec == FilterInit /\ [][FilterNext]_vars

\* ------------------------------------------------------------------------
\* One validate_signal call on one signal
\* ------------------------------------------------------------------------
\* the signals handed to validate_signal: entered at 100.00, of either side
\* (or a side that is neither), with the stop and the target below, at and
\* above the entry; risk_reward is the one __post_init__ computes or one
\* the caller passed to Signal(...)
ValidateInputs ==
    LET computed ==
            {MakeSignal([isTs |-> TRUE, day |-> 200, slot |-> 0], "ABC", "Golden_Cross",
                        side, 10000, stop, target, confidence) :
                side \in {"BUY", "SELL", "HOLD"},
                stop \in {9000, 9500, 10000, 10500},
                target \in {8000, 9000, 10000, 11000, 12000},
                confidence \in {2, 3, 5, 10}}
    IN computed \cup
       {[s EXCEPT !.risk_reward = rr] :
           s \in computed, rr \in {Frac(0, 1), Frac(199, 100), Frac(2, 1), Frac(3, 1)}}

ValidateInit ==
    /\ ScanIdle
    /\ StratIdle
    /\ FilterIdle
    /\ BacktestIdle
    /\ IndicatorIdle
    /\ ConfidenceIdle
    /\ vpc = "init"
    /\ vsignal \in ValidateInputs
    /\ vout = FALSE

\* strategy.validate_signal(signal)
CallValidate ==
    /\ vpc = "init"
    /\ vout' = ValidateSignal(vsignal)
    /\ vpc' = "done"
    /\ UNCHANGED <<vsignal, scanVars, stratVars, filterVars, backtestVars, indicatorVars,
                   confidenceVars>>

ValidateNext == CallValidate

ValidateSpec == ValidateInit /\ [][ValidateNext]_vars

\* ------------------------------------------------------------------------
\* One backtester call on one frame
\* ------------------------------------------------------------------------
\* a bar that opened, peaked, bottomed and closed at c
PriceBar(c) == Bar(c, c, c, 1000, c, c)

BacktestCloses == {50, 100, 150, 200}

\* frames of 0 to MaxBars bars, with all columns, without Close and
\* without any column, and an object that is no DataFrame
BacktestFrames ==
    {NoFrame} \cup
    {Frame(n, [j \in 1..n |-> PriceBar(t[j])], c, "daily") :
        n \in 0..MaxBars, t \in [1..MaxBars -> BacktestCloses],
        c \in {ColNames, ColNames \ {"Close"}, {}}}

BacktestInit ==
    /\ ScanIdle
    /\ StratIdle
    /\ FilterIdle
    /\ ValidateIdle
    /\ IndicatorIdle
    /\ ConfidenceIdle
    /\ bpc = "init"
    /\ bdf \in BacktestFrames
    /\ breturns = {}
    /\ bresults = BacktestResults("Unknown", {})

\* calculate_simple_returns(df)
CallSimpleReturns ==
    /\ bpc = "init"
    /\ breturns' = CalculateSimpleReturns(bdf)
    /\ bpc' = "returns_done"
    /\ UNCHANGED <<bdf, bresults, scanVars, stratVars, filterVars, validateVars,
                   indicatorVars, confidenceVars>>

\* run_comprehensive_backtest(df, 'ABC')
CallBacktest ==
    /\ bpc = "init"
    /\ bresults' = RunComprehensiveBacktest(bdf, "ABC")
    /\ bpc' = "backtest_done"
    /\ UNCHANGED <<bdf, breturns, scanVars, stratVars, filterVars, validateVars,
                   indicatorVars, confidenceVars>>

BacktestNext == CallSimpleReturns \/ CallBacktest

BacktestSpec == BacktestInit /\ [][BacktestNext]_vars

\* ------------------------------------------------------------------------
\* One add_common_indicators call on one frame
\* ------------------------------------------------------------------------
\* n bars whose close rises by one unit from bar to bar
RisingFrame(n) ==
    Frame(n, [j \in 1..n |-> PriceBar(100 + j)], ColNames \cup {"Open"}, "daily")

IndicatorCloses == {98, 100, 102}

\* frames around the length that fills one rsi window: a flat run closed
\* by TailLen bars that fall, stay or rise, and rising frames; with the
\* required columns and without one of them
IndicatorFrames ==
    {NoFrame}
    \cup {RisingFrame(n) : n \in (RsiWindow - 1)..(RsiWindow + 1)}
    \cup {Frame(n, [j \in 1..TailLen |-> PriceBar(t[j])], c, "daily") :
             n \in (RsiWindow - 1)..(RsiWindow + 2),
             t \in [1..TailLen -> IndicatorCloses],
             c \in {ColNames \cup {"Open"}, ColNames, (ColNames \cup {"Open"}) \ {"Volume"}}}

IndicatorInit ==
    /\ ScanIdle
    /\ StratIdle
    /\ FilterIdle
    /\ ValidateIdle
    /\ BacktestIdle
    /\ ConfidenceIdle
    /\ ipc = "init"
    /\ idf \in IndicatorFrames
    /\ idata = Unchanged(NoFrame)

\* add_common_indicators(df)
CallAddCommonIndicators ==
    /\ ipc = "init"
    /\ idata' = AddCommonIndicators(idf)
    /\ ipc' = "done"
    /\ UNCHANGED <<idf, scanVars, stratVars, filterVars, validateVars, backtestVars,
                   confidenceVars>>

IndicatorNext == CallAddCommonIndicators

IndicatorSpec == IndicatorInit /\ [][IndicatorNext]_vars

\* ------------------------------------------------------------------------
\* The two crossing detectors on one series
\* ------------------------------------------------------------------------
\* flat bars with EMA50 at, above and below EMA200
CrossBars ==
    { FlatBar,
      Bar(100, 100, 98, 1000, 101, 100),
      Bar(100, 100, 98, 500, 99, 100) }

\* series that end in TailLen + 1 such bars, after a flat run or without
\* one; with all columns, without the EMA columns and without High
CrossFrames ==
    {Frame(n, t, c, "daily") :
        n \in {TailLen + 1, GoldenMinBars + TailLen + 1},
        t \in [1..(TailLen + 1) -> CrossBars],
        c \in {ColNames, ColNames \ {"ema_50", "ema_200"}, ColNames \ {"High"}}}

CrossInit ==
    /\ ScanIdle
    /\ FilterIdle
    /\ ValidateIdle
    /\ BacktestIdle
    /\ ConfidenceIdle
    /\ spc = "init"
    /\ sdf_in \in CrossFrames
    /\ sdf = sdf_in
    /\ sname = "none"
    /\ sout = <<>>
    /\ ipc = "init"
    /\ idf = sdf_in
    /\ idata = Unchanged(NoFrame)

\* detect_pattern_conditions(df)
CallDetectPatternConditions ==
    /\ ipc = "init"
    /\ idata' = DetectPatternConditions(idf)
    /\ ipc' = "flagged"
    /\ UNCHANGED <<idf, scanVars, stratVars, filterVars, validateVars, backtestVars,
                   confidenceVars>>

CrossNext == CallGoldenCross \/ CallDetectPatternConditions

CrossSpec == CrossInit /\ [][CrossNext]_vars

\* ------------------------------------------------------------------------
\* One calculate_volume_confidence call on one frame
\* ------------------------------------------------------------------------
\* a flat bar of the given volume
VolumeBar(v) == Bar(100, 100, 98, v, 100, 100)

\* volumes at and next to the thresholds of the ratio for a mean of 1000
Volumes == {0, 790, 800, 1000, 1190, 1200, 1500, 2000, 3000}

\* frames of 20 to 23 bars: a run of equal volume (1000, or no volume at
\* all) closed by TailLen bars of chosen volume; with and without the
\* Volume column; and an object that is no DataFrame
ConfidenceFrames ==
    {NoFrame} \cup
    {[kind |-> "frame", n |-> n, base |-> StripBar(VolumeBar(b), c),
      tail |-> [j \in 1..TailLen |-> StripBar(VolumeBar(t[j]), c)],
      cols |-> c, index |-> "daily"] :
        n \in VolumeLookback..(VolumeLookback + 3), b \in {0, 1000},
        t \in [1..TailLen -> Volumes], c \in {ColNames, ColNames \ {"Volume"}}}

\* indexes before the first bar, within the first 20 bars, at the bars
\* from bar 20 on and past the last bar
ConfidenceIndexes == {-1, 0, VolumeLookback - 1} \cup VolumeLookback..(VolumeLookback + 3)

ConfidenceInit ==
    /\ ScanIdle
    /\ StratIdle
    /\ FilterIdle
    /\ ValidateIdle
    /\ BacktestIdle
    /\ IndicatorIdle
    /\ cpc = "init"
    /\ cdf \in ConfidenceFrames
    /\ cindex \in ConfidenceIndexes
    /\ cout = NeutralConfidence

\* strategy.calculate_volume_confidence(df, index)
CallVolumeConfidence ==
    /\ cpc = "init"
    /\ cout' = VolumeConfidence(cdf, cindex)
    /\ cpc' = "done"
    /\ UNCHANGED <<cdf, cindex, scanVars, stratVars, filterVars, validateVars,
                   backtestVars, indicatorVars>>

ConfidenceNext == CallVolumeConfidence

ConfidenceSpec == ConfidenceInit /\ [][ConfidenceNext]_vars

\* ------------------------------------------------------------------------
\* Properties of filter_signals (FilterSpec)
\* ------------------------------------------------------------------------
Symbols(list) == {list[j].symbol : j \in 1..Len(list)}

CountOfSymbol(list, symbol) ==
    Cardinality({j \in 1..Len(list) : list[j].symbol = symbol})

\* C3: the list filter_signals returns holds at most max_signals_per_stock
\* signals of any one symbol (max_signals_per_stock >= 0).
C3_AtMostMaxPerSymbol ==
    (fpc = "done" /\ fargs.max_signals_per_stock >= 0) =>
        \A symbol \in Symbols(fin) \cup Symbols(fout) :
            CountOfSymbol(fout, symbol) <= fargs.max_signals_per_stock

\* a call whose list holds three signals of one symbol that pass the
\* thresholds and that returned two of them
C3_Witness ==
    /\ fpc = "done"
    /\ fargs.max_signals_per_stock = 2
    /\ \E symbol \in Symbols(fin) :
          /\ Cardinality({j \in 1..Len(fin) :
                /\ fin[j].symbol = symbol
                /\ fin[j].confidence >= fargs.min_confidence
                /\ FracGeq(fin[j].risk_reward, fargs.min_risk_reward)}) = 3
          /\ CountOfSymbol(fout, symbol) = 2

\* the lists that hold the signals of list in another order
Reorderings(list) ==
    {[i \in 1..Len(list) |-> list[f[i]]] :
        f \in {g \in [1..Len(list) -> 1..Len(list)] :
                  \A i, j \in 1..Len(list) : g[i] = g[j] => i = j}}

\* C4: filter_signals returns the same list for every reordering of its
\* input.
C4_ReorderingInvariant ==
    fpc = "done" =>
        \A other \in Reorderings(fin) :
            FilterSignals(other, fargs.min_confidence, fargs.min_risk_reward,
                          fargs.max_signals_per_stock) = fout

\* the signal passes the thresholds of the call
PassesThresholds(s) ==
    /\ s.confidence >= fargs.min_confidence
    /\ s.risk_reward.num * fargs.min_risk_reward.den
          >= fargs.min_risk_reward.num * s.risk_reward.den

\* how often the list holds the signal
Occurrences(list, s) == Cardinality({j \in 1..Len(list) : list[j] = s})

\* C14: every signal in the output of filter_signals is an element of the
\* input list, appears at most as often as in the input and has
\* confidence >= min_confidence and risk_reward >= min_risk_reward; the
\* input list itself is left unchanged.
C14_OutputFromInput ==
    /\ [](fpc = "done" =>
            \A j \in 1..Len(fout) :
                /\ \E i \in 1..Len(fin) : fin[i] = fout[j]
                /\ Occurrences(fout, fout[j]) <= Occurrences(fin, fout[j])
                /\ PassesThresholds(fout[j]))
    /\ [][fin' = fin]_vars

\* a call that returned a signal it was handed twice, twice, and left out a
\* signal below the risk/reward threshold
C14_Witness ==
    /\ fpc = "done"
    /\ Len(fin) = 3
    /\ fin[1] = fin[3]
    /\ fin[2].confidence >= fargs.min_confidence
    /\ ~PassesThresholds(fin[2])
    /\ fout = <<fin[1], fin[3]>>

\* the signals of the symbol that pass the thresholds, as positions of fin
PassingOf(symbol) ==
    {i \in 1..Len(fin) : fin[i].symbol = symbol /\ PassesThresholds(fin[i])}

\* a is not below b in the order by confidence, then by risk_reward
NotBelow(a, b) ==
    \/ a.confidence > b.confidence
    \/ /\ a.confidence = b.confidence
       /\ a.risk_reward.num * b.risk_reward.den >= b.risk_reward.num * a.risk_reward.den

\* C15: for each symbol, filter_signals retains exactly
\* min(max_signals_per_stock, number of the symbol's threshold-passing
\* signals) signals, and every retained signal of a symbol is >= every
\* dropped threshold-passing signal of that symbol in the lexicographic
\* order (confidence, risk_reward) (max_signals_per_stock >= 0).
C15_TopPerSymbol ==
    (fpc = "done" /\ fargs.max_signals_per_stock >= 0) =>
        \A symbol \in Symbols(fin) :
            /\ CountOfSymbol(fout, symbol) =
                  Min2(fargs.max_signals_per_stock, Cardinality(PassingOf(symbol)))
            /\ \A j \in 1..Len(fout), i \in PassingOf(symbol) :
                  (/\ fout[j].symbol = symbol
                   /\ Occurrences(fout, fin[i]) < Occurrences(fin, fin[i]))
                  => NotBelow(fout[j], fin[i])

\* a call with max_signals_per_stock = 1 whose list holds a symbol's
\* lesser signal before its greater one, and that retained the greater
C15_Witness ==
    /\ fpc = "done"
    /\ fargs.max_signals_per_stock = 1
    /\ Len(fin) >= 2
    /\ fin[1].symbol = fin[2].symbol
    /\ PassesThresholds(fin[1])
    /\ PassesThresholds(fin[2])
    /\ ~NotBelow(fin[1], fin[2])
    /\ \E j \in 1..Len(fout) : fout[j] = fin[2]
    /\ \A j \in 1..Len(fout) : fout[j] # fin[1]

\* C16 as stated: the output of filter_signals is ordered by confidence
\* non-increasing, and any two output signals with equal confidence (also
\* of different symbols) appear in the same relative order as in the
\* input list.
C16_TiesKeepInputOrder ==
    fpc = "done" =>
        \A i, j \in 1..Len(fout) :
            i < j =>
                /\ fout[i].confidence >= fout[j].confidence
                /\ (fout[i].confidence = fout[j].confidence /\ fout[i] # fout[j]) =>
                      \E a, b \in 1..Len(fin) :
                          a < b /\ fin[a] = fout[i] /\ fin[b] = fout[j]

\* the first position of fin at which a threshold-passing signal of the
\* symbol stands
FirstPassing(symbol) == MinOf(PassingOf(symbol))

\* C16 as amended: the output of filter_signals is ordered by confidence
\* non-increasing, and two output signals with equal confidence appear in
\* the order of the joined per-symbol groups: signals of different symbols
\* in the order in which their symbols first occur among the
\* threshold-passing signals of the input, signals of one symbol by
\* risk_reward non-increasing, and signals of one symbol with equal
\* risk_reward in their relative order in the input list.
C16_TiesKeepGroupOrder ==
    fpc = "done" =>
        \A i, j \in 1..Len(fout) :
            i < j =>
                /\ fout[i].confidence >= fout[j].confidence
                /\ (fout[i].confidence = fout[j].confidence
                       /\ fout[i].symbol # fout[j].symbol) =>
                      FirstPassing(fout[i].symbol) < FirstPassing(fout[j].symbol)
                /\ (fout[i].confidence = fout[j].confidence
                       /\ fout[i].symbol = fout[j].symbol) =>
                      /\ NotBelow(fout[i], fout[j])
                      /\ (fout[i].risk_reward = fout[j].risk_reward
                            /\ fout[i] # fout[j]) =>
                            \E a, b \in 1..Len(fin) :
                                a < b /\ fin[a] = fout[i] /\ fin[b] = fout[j]

\* a call that returned two signals of equal confidence and of different
\* symbols in the order opposite to that of the input
C16_Witness ==
    /\ fpc = "done"
    /\ \E i, j \in 1..Len(fout) :
          /\ i < j
          /\ fout[i].confidence = fout[j].confidence
          /\ fout[i].symbol # fout[j].symbol
          /\ \A a, b \in 1..Len(fin) :
                (fin[a] = fout[i] /\ fin[b] = fout[j]) => b < a

\* ------------------------------------------------------------------------
\* Properties of a strategy call (StrategySpec)
\* ------------------------------------------------------------------------
\* the signals of a list, as a set of positions
Positions(list) == 1..Len(list)

\* C2: every signal a strategy's scan returns has risk_reward >= 2.0, and
\* its risk_reward is reward / risk for the signal's side (risk = |entry -
\* stop|, reward = |target - entry| for BUY; risk = |stop - entry|, reward =
\* |entry - target| otherwise), and 0 when risk = 0.
C2_AcceptedRiskReward ==
    spc = "done" =>
        \A j \in Positions(sout) :
            LET s == sout[j]
                risk == IF s.side = "BUY" THEN Abs(s.entry - s.stop)
                        ELSE Abs(s.stop - s.entry)
                reward == IF s.side = "BUY" THEN Abs(s.target - s.entry)
                          ELSE Abs(s.entry - s.target)
            IN /\ s.risk_reward.num >= 2 * s.risk_reward.den
               /\ s.risk_reward.den > 0
               /\ risk > 0 => s.risk_reward.num * risk = reward * s.risk_reward.den
               /\ risk = 0 => s.risk_reward.num = 0

\* a Golden_Cross scan that returned a signal whose ratio is above 2
C2_Witness ==
    /\ spc = "done"
    /\ sname = "Golden_Cross"
    /\ \E j \in Positions(sout) : sout[j].risk_reward.num > 2 * sout[j].risk_reward.den

\* C9: on a frame shorter than the strategy's minimum length (200 bars for
\* Golden_Cross, 2 * 20 = 40 bars for Simple_Breakout) scan returns the
\* empty list.
C9_ShortSeriesEmpty ==
    (spc # "init" /\ sdf_in.kind = "frame") =>
        /\ (sname = "Golden_Cross" /\ sdf_in.n < 200) => (spc = "done" /\ sout = <<>>)
        /\ (sname = "Simple_Breakout" /\ sdf_in.n < 40) => (spc = "done" /\ sout = <<>>)

\* a Simple_Breakout scan of a 39-bar frame one of whose bars breaks out
C9_Witness ==
    /\ spc = "done"
    /\ sname = "Simple_Breakout"
    /\ sdf_in.n = 39
    /\ ColNames \subseteq sdf_in.cols
    /\ \E i \in 20..38 :
          \A j \in (i - 20)..(i - 1) :
              100 * Cell(sdf_in, "Close", i) > 101 * Cell(sdf_in, "High", j)
    /\ sout = <<>>

\* the bars i >= 200 of the frame at which EMA50 crosses above EMA200
CrossingBars(df) ==
    {i \in 200..(df.n - 1) :
        /\ Cell(df, "ema_50", i) > Cell(df, "ema_200", i)
        /\ Cell(df, "ema_50", i - 1) <= Cell(df, "ema_200", i - 1)}

\* the list holds exactly one signal for each bar of bars, dated at that
\* bar, all of the setup Golden_Cross, and nothing else
OneSignalPerBar(list, df, bars) ==
    /\ Len(list) = Cardinality(bars)
    /\ \A i \in bars : \E j \in Positions(list) : list[j].date = IndexAt(df, i)
    /\ \A j \in Positions(list) :
          /\ list[j].setup = "Golden_Cross"
          /\ \E i \in bars : list[j].date = IndexAt(df, i)

\* C10 as stated: on a frame of at least 200 bars, Golden_Cross scan
\* returns exactly one signal for each bar i >= 200 with EMA50[i] >
\* EMA200[i] and EMA50[i-1] <= EMA200[i-1], and none for any other bar.
C10_OnePerCrossing ==
    (spc = "done" /\ sname = "Golden_Cross" /\ sdf_in.n >= 200
        /\ "Close" \in sdf_in.cols) =>
        OneSignalPerBar(sout, sdf, CrossingBars(sdf))

\* C10 as amended: on a frame of at least 200 bars that has a Close
\* column, Golden_Cross scan returns exactly one signal for each bar
\* i >= 200 with EMA50[i] > EMA200[i] and EMA50[i-1] <= EMA200[i-1] whose
\* candidate passes validate_signal, and none for any other bar.
C10_OnePerValidCrossing ==
    (spc = "done" /\ sname = "Golden_Cross" /\ sdf_in.n >= 200
        /\ "Close" \in sdf_in.cols) =>
        OneSignalPerBar(sout, sdf,
            {i \in CrossingBars(sdf) : ValidateSignal(GoldenCandidate(sdf, "ABC", i))})

\* a scan that returned the signal of a crossing at bar 200 and none for
\* bar 201, where EMA50 stays above EMA200
C10_Witness ==
    /\ spc = "done"
    /\ sname = "Golden_Cross"
    /\ sdf_in.n = 202
    /\ Len(sout) = 1
    /\ sout[1].date = IndexAt(sdf, 200)
    /\ Cell(sdf, "ema_50", 201) > Cell(sdf, "ema_200", 201)

\* C18: a strategy's scan leaves the series it is given unchanged: it adds
\* no column to and modifies no value of the input series, also when the
\* series has no ema_50 / ema_200 columns.
C18_ScanLeavesSeriesUnchanged ==
    spc = "done" => sdf = sdf_in

\* close[i] > 1.01 * max(high[i-20..i-1])
IsBreakoutBar(df, i) ==
    \E m \in {Cell(df, "High", j) : j \in (i - 20)..(i - 1)} :
        /\ \A j \in (i - 20)..(i - 1) : Cell(df, "High", j) <= m
        /\ 100 * Cell(df, "Close", i) > 101 * m

\* 0.98 * min(low[i-10..i-1]), in hundredths
StopBelowLows(df, i) ==
    CHOOSE x \in {98 * Cell(df, "Low", j) : j \in (i - 10)..(i - 1)} :
        \A j \in (i - 10)..(i - 1) : x <= 98 * Cell(df, "Low", j)

\* the signal is the candidate the claim describes for bar i
IsBreakoutSignalOf(s, df, i) ==
    /\ s.date = IndexAt(df, i)
    /\ s.setup = "Simple_Breakout"
    /\ s.side = "BUY"
    /\ s.entry = 100 * Cell(df, "Close", i)
    /\ s.stop = StopBelowLows(df, i)
    /\ s.target = s.entry + 2 * (s.entry - s.stop)
    /\ s.confidence = VolumeConfidence(df, i)

\* the volume ratio of bar i is at least 2.0
VolumeRatioAtLeastTwo(df, i) ==
    /\ "Volume" \in df.cols
    /\ SumCells(df, "Volume", i - 20, i) > 0
    /\ 20 * Cell(df, "Volume", i) >= 2 * SumCells(df, "Volume", i - 20, i)

\* C20: on a series of at least 40 bars, SimpleBreakoutStrategy.scan
\* considers exactly the bars i >= 20 with close[i] > 1.01 *
\* max(high[i-20..i-1]): every signal it returns is the candidate of such a
\* bar, a BUY with entry = close[i], stop = 0.98 * min(low[i-10..i-1]),
\* target = entry + 2 * (entry - stop) and confidence =
\* calculate_volume_confidence(series, i), and every such bar whose
\* candidate passes validate_signal has exactly one signal; a breakout bar
\* with volume ratio >= 2.0 yields one BUY signal with confidence 0.9,
\* returned unless validate_signal rejects it.
C20_BreakoutCandidates ==
    (spc = "done" /\ sname = "Simple_Breakout" /\ sdf_in.n >= 40
        /\ {"Close", "High", "Low"} \subseteq sdf_in.cols) =>
        /\ \A j \in 1..Len(sout) :
              \E i \in 20..(sdf_in.n - 1) :
                  IsBreakoutBar(sdf_in, i) /\ IsBreakoutSignalOf(sout[j], sdf_in, i)
        /\ \A i \in 20..(sdf_in.n - 1) :
              LET at == {j \in 1..Len(sout) : sout[j].date = IndexAt(sdf_in, i)}
              IN /\ Cardinality(at) <= 1
                 /\ (IsBreakoutBar(sdf_in, i)
                       /\ ValidateSignal(BreakoutCandidate(sdf_in, "ABC", i)))
                      => Cardinality(at) = 1
                 /\ (IsBreakoutBar(sdf_in, i) /\ VolumeRatioAtLeastTwo(sdf_in, i)
                       /\ ValidateSignal(BreakoutCandidate(sdf_in, "ABC", i)))
                      => \E j \in at : sout[j].side = "BUY" /\ sout[j].confidence = 9

\* a scan of 41 bars, 20 bars of volume 1000 before a last bar of volume
\* 3000 that breaks out, returned one BUY signal of confidence 0.9
C20_Witness ==
    /\ spc = "done"
    /\ sname = "Simple_Breakout"
    /\ sdf_in.n = 41
    /\ ColNames \subseteq sdf_in.cols
    /\ \A j \in 20..39 : Cell(sdf_in, "Volume", j) = 1000
    /\ Cell(sdf_in, "Volume", 40) = 3000
    /\ Len(sout) = 1
    /\ sout[1].date = IndexAt(sdf_in, 40)
    /\ sout[1].side = "BUY"
    /\ sout[1].confidence = 9

\* ------------------------------------------------------------------------
\* Properties of scan_multiple_stocks (Spec)
\* ------------------------------------------------------------------------
RECURSIVE MergedFrom(_)
\* the lists of the futures that hold a list, from asset k on, joined in
\* the order of stock_data
MergedFrom(k) ==
    IF k > Len(task) THEN <<>>
    ELSE (IF task[k].status = "done" THEN task[k].signals ELSE <<>>) \o MergedFrom(k + 1)

Count(list, s) == Cardinality({j \in Positions(list) : list[j] = s})

Elements(list) == {list[j] : j \in Positions(list)}

SameBag(a, b) ==
    \A s \in Elements(a) \cup Elements(b) : Count(a, s) = Count(b, s)

\* C1: the list one scanner run returns holds no two signals with the same
\* (symbol, setup, calendar day of date).
C1_NoDuplicateKeys ==
    pc = "returned" =>
        \A i, j \in Positions(result) :
            (/\ result[i].symbol = result[j].symbol
             /\ result[i].setup = result[j].setup
             /\ result[i].date.day = result[j].date.day) => i = j

\* C5: the list scan_multiple_stocks returns does not depend on the order
\* in which the tasks complete: it is the list returned when they complete
\* in the order of stock_data.
C5_CompletionOrderIndependent ==
    pc = "returned" => result = SortDesc(MergedFrom(1), "date")

\* C6: scan_multiple_stocks eventually returns, also when the scan of one
\* asset never finishes: a call that has not returned is never stuck, the
\* caller or a scan that has not hung can take a further step.
C6_NeverStuck ==
    \/ pc \in {"idle", "returned"}
    \/ CanReturn
    \/ \E k \in 1..Len(task) : CanCollect(k) \/ CanTaskStart(k) \/ Running(k)

\* C7: when the scan of an asset raises, no error escapes
\* scan_multiple_stocks and the list returned holds exactly the signals
\* found for the assets whose scan returned.
C7_RaisingTaskIsolated ==
    /\ pc # "raised"
    /\ pc = "returned" => SameBag(result, MergedFrom(1))

\* a run that returned the signals of one asset while the scan of another
\* asset had raised
C7_Witness ==
    /\ pc = "returned"
    /\ \E k \in 1..Len(task) : task[k].status = "raised"
    /\ \E k \in 1..Len(task) : task[k].status = "done" /\ task[k].signals # <<>>
    /\ result # <<>>

\* C8: no failure escapes scan_single_stock: the future of a scan never
\* holds an exception.
C8_NoFailureEscapes ==
    \A k \in 1..Len(task) : task[k].status # "raised"

\* ------------------------------------------------------------------------
\* Properties of validate_signal (ValidateSpec)
\* ------------------------------------------------------------------------
\* C11: validate_signal returns False exactly when at least one of these
\* holds: risk_reward < min_risk_reward (2.0); side is BUY and (target <=
\* entry or stop >= entry); side is not BUY and (target >= entry or stop <=
\* entry); confidence < 0.3.  In every other case it returns True.
C11_ValidateExactly ==
    vpc = "done" =>
        LET s == vsignal
            reject ==
                \/ s.risk_reward.num * 1 < 2 * s.risk_reward.den
                \/ s.side = "BUY" /\ (s.target <= s.entry \/ s.stop >= s.entry)
                \/ s.side # "BUY" /\ (s.target >= s.entry \/ s.stop <= s.entry)
                \/ s.confidence < 3
        IN vout = ~reject

\* a SELL signal of confidence 0.3 and risk/reward 2 with its target below
\* and its stop above the entry, accepted
C11_Witness ==
    /\ vpc = "done"
    /\ vsignal.side = "SELL"
    /\ vsignal.confidence = 3
    /\ vsignal.risk_reward = Frac(2, 1)
    /\ vsignal.target < vsignal.entry
    /\ vsignal.stop > vsignal.entry
    /\ vout = TRUE

\* ------------------------------------------------------------------------
\* Properties of the backtester (BacktestSpec)
\* ------------------------------------------------------------------------
\* C12: given a series of fewer than 2 bars (the empty series included),
\* calculate_simple_returns returns an empty metrics object and
\* run_comprehensive_backtest returns a result with an empty benchmark and
\* an empty strategies map; neither raises.
C12_ShortSeriesEmptyMetrics ==
    (bdf.kind = "frame" /\ bdf.n < 2) =>
        /\ bpc # "raised"
        /\ bpc = "returns_done" => breturns = {}
        /\ bpc = "backtest_done" => (bresults.benchmark = {} /\ bresults.strategies = {})

\* run_comprehensive_backtest on a frame of one bar that has a Close
\* column came back with an empty benchmark
C12_Witness ==
    /\ bpc = "backtest_done"
    /\ bdf.n = 1
    /\ "Close" \in bdf.cols
    /\ bresults.benchmark = {}
    /\ bresults.strategies = {}

\* ------------------------------------------------------------------------
\* Properties of add_common_indicators (IndicatorSpec)
\* ------------------------------------------------------------------------
\* the 14-bar window that ends at bar i holds no down day
NoDownDay(df, i) ==
    \A j \in (i - 13)..i : j >= 1 => Cell(df, "Close", j) >= Cell(df, "Close", j - 1)

\* C13: in add_common_indicators, whenever the 14-bar average loss is 0 (a
\* window with no down days, a window of unchanged closes included), the
\* rsi value is 100, and no division fault is raised.
C13_RsiExtremeOnZeroLoss ==
    (ipc = "done" /\ idf.kind = "frame" /\ RequiredCols \subseteq idf.cols) =>
        /\ "rsi" \in idata.cols
        /\ \A i \in 13..(idf.n - 1) :
              NoDownDay(idf, i) =>
                  (idata.rsi[i + 1].kind = "num" /\ idata.rsi[i + 1].val = Frac(100, 1))

\* the signals of the list that are dated d, in the order of the list
DatedAt(list, d) == SelectSeq(list, LAMBDA s : s.date = d)

\* date a is not earlier than date b
NotEarlier(a, b) == a.day > b.day \/ (a.day = b.day /\ a.slot >= b.slot)

\* C17: after all per-asset tasks have settled, the list
\* scan_multiple_stocks returns is ordered by signal date non-increasing,
\* and signals with equal dates keep the relative order in which they were
\* merged into all_signals.
C17_SortedByDateStable ==
    [][(pc = "collect" /\ pc' = "returned") =>
          /\ Len(result') = Len(all_signals)
          /\ \A i, j \in 1..Len(result') :
                i < j => NotEarlier(result'[i].date, result'[j].date)
          /\ \A k \in 1..Len(all_signals) :
                DatedAt(result', all_signals[k].date)
                    = DatedAt(all_signals, all_signals[k].date)]_vars

\* a run over two assets that returned signals of both with one date and
\* a signal of another date
C17_Witness ==
    /\ pc = "returned"
    /\ Len(task) = 2
    /\ Len(result) >= 3
    /\ \E i, j \in 1..Len(result) :
          /\ i < j
          /\ result[i].date = result[j].date
          /\ result[i].symbol # result[j].symbol
    /\ \E i \in 1..Len(result) : result[i].date # result[1].date

\* ------------------------------------------------------------------------
\* Properties of calculate_volume_confidence (ConfidenceSpec)
\* ------------------------------------------------------------------------
\* the sum of the volumes of the 20 bars before bar i
PriorVolume(df, i) == SumCells(df, "Volume", i - 20, i)

\* volume[i] / mean(volume[i-20..i-1]) >= k / 10, the ratio taken as 1.0
\* when the mean is not positive
RatioAtLeast(df, i, k) ==
    IF PriorVolume(df, i) > 0
    THEN 10 * 20 * Cell(df, "Volume", i) >= k * PriorVolume(df, i)
    ELSE 10 >= k

\* C19: calculate_volume_confidence(series, i), i a bar of the series,
\* returns 0.5 when i < 20 or there is no volume field; otherwise, with
\* ratio = volume[i] / mean(volume[i-20..i-1]) (1.0 when that mean is not
\* positive), it returns 0.9 if ratio >= 2.0, 0.8 if ratio >= 1.5, 0.7 if
\* ratio >= 1.2, 0.6 if ratio >= 0.8, else 0.4.
C19_VolumeConfidenceTable ==
    (cpc = "done" /\ cdf.kind = "frame" /\ cindex >= 0 /\ cindex < cdf.n) =>
        IF cindex < 20 \/ "Volume" \notin cdf.cols THEN cout = 5
        ELSE /\ RatioAtLeast(cdf, cindex, 20) => cout = 9
             /\ (~RatioAtLeast(cdf, cindex, 20) /\ RatioAtLeast(cdf, cindex, 15)) => cout = 8
             /\ (~RatioAtLeast(cdf, cindex, 15) /\ RatioAtLeast(cdf, cindex, 12)) => cout = 7
             /\ (~RatioAtLeast(cdf, cindex, 12) /\ RatioAtLeast(cdf, cindex, 8)) => cout = 6
             /\ ~RatioAtLeast(cdf, cindex, 8) => cout = 4

\* 20 bars of volume 1000 followed by a bar of volume 3000: the call for
\* that bar returned 0.9
C19_Witness ==
    /\ cpc = "done"
    /\ cdf.kind = "frame"
    /\ cdf.n = 21
    /\ cindex = 20
    /\ "Volume" \in cdf.cols
    /\ \A j \in 0..19 : Cell(cdf, "Volume", j) = 1000
    /\ Cell(cdf, "Volume", 20) = 3000
    /\ cout = 9

\* ------------------------------------------------------------------------
\* The fields of a Golden_Cross signal (StrategySpec)
\* ------------------------------------------------------------------------
\* volume_confidence(i) + (0.2 if close[i] > EMA200[i] else 0), in tenths
BonusSum(df, i) ==
    VolumeConfidence(df, i)
        + (IF Cell(df, "Close", i) > Cell(df, "ema_200", i) THEN 2 ELSE 0)

\* the signal is the one the claim describes for bar i: prices in
\* hundredths, so that 0.95 * EMA50 is 95 * EMA50 and 1.15 * entry is
\* 115 * entry / 100
IsGoldenSignalOf(s, df, i) ==
    /\ s.date = IndexAt(df, i)
    /\ s.side = "BUY"
    /\ s.entry = 100 * Cell(df, "Close", i)
    /\ s.stop = 95 * Cell(df, "ema_50", i)
    /\ 100 * s.target = 115 * s.entry
    /\ s.confidence = (IF BonusSum(df, i) < 10 THEN BonusSum(df, i) ELSE 10)

\* C21: every signal GoldenCrossStrategy.scan returns is the signal of a
\* crossing bar i: a BUY with entry = close[i], stop = 0.95 * EMA50[i],
\* target = 1.15 * entry and confidence = min(volume_confidence(i) + (0.2
\* if close[i] > EMA200[i] else 0), 1.0); its confidence never exceeds 1.0,
\* also when the bonus pushes the sum above 1.0.
C21_GoldenSignalFields ==
    (spc = "done" /\ sname = "Golden_Cross") =>
        \A j \in 1..Len(sout) :
            /\ \E i \in CrossingBars(sdf) : IsGoldenSignalOf(sout[j], sdf, i)
            /\ sout[j].confidence <= 10

\* a scan returned the signal of a crossing at bar 200 whose volume is
\* three times the average (0.9) and whose close is above EMA200, so that
\* the sum is 1.1 and the confidence 1.0
C21_Witness ==
    /\ spc = "done"
    /\ sname = "Golden_Cross"
    /\ \E j \in 1..Len(sout) :
          /\ sout[j].date = IndexAt(sdf, 200)
          /\ BonusSum(sdf, 200) = 11
          /\ sout[j].confidence = 10

\* ------------------------------------------------------------------------
\* Filtering a filtered list (FilterSpec)
\* ------------------------------------------------------------------------
\* C22: filter_signals is idempotent: with the thresholds of the call,
\* filter_signals of the list a call returned is that list, the same
\* signals in the same order, also when signals of different symbols tie
\* on confidence.
C22_FilterIdempotent ==
    fpc = "done" =>
        FilterSignals(fout, fargs.min_confidence, fargs.min_risk_reward,
                      fargs.max_signals_per_stock) = fout

\* ------------------------------------------------------------------------
\* Breakout candidates of well-formed bars (StrategySpec)
\* ------------------------------------------------------------------------
\* 0 < low <= close <= high at every bar of the frame
BarInvariant(df) ==
    \A i \in 0..(df.n - 1) :
        /\ 0 < Cell(df, "Low", i)
        /\ Cell(df, "Low", i) <= Cell(df, "Close", i)
        /\ Cell(df, "Close", i) <= Cell(df, "High", i)

\* the signal has its stop strictly below its entry, its target strictly
\* above, risk_reward exactly 2 and confidence at least 0.4
WellFormedBreakout(s) ==
    /\ s.stop < s.entry
    /\ s.target > s.entry
    /\ s.risk_reward.num = 2 * s.risk_reward.den
    /\ s.confidence >= 4

\* C23: on a series whose bars satisfy 0 < low <= close <= high, every
\* candidate SimpleBreakoutStrategy.scan builds passes validate_signal: the
\* scan returns exactly one signal for every bar it tests that meets the
\* breakout condition (the bars i >= 20 of a series of at least 40 bars
\* with close[i] > 1.01 * max(high[i-20..i-1])), and that signal has its
\* stop strictly below its entry, its target strictly above, risk_reward
\* exactly 2 and confidence at least 0.4.
C23_BreakoutCandidatesValid ==
    (spc = "done" /\ sname = "Simple_Breakout" /\ sdf_in.n >= 40
        /\ {"Close", "High", "Low"} \subseteq sdf_in.cols /\ BarInvariant(sdf_in)) =>
        \A i \in 20..(sdf_in.n - 1) :
            IsBreakoutBar(sdf_in, i) =>
                LET at == {j \in 1..Len(sout) : sout[j].date = IndexAt(sdf_in, i)}
                IN /\ Cardinality(at) = 1
                   /\ \A j \in at : WellFormedBreakout(sout[j])

\* a scan of 41 well-formed bars whose last two both break out returned
\* two signals
C23_Witness ==
    /\ spc = "done"
    /\ sname = "Simple_Breakout"
    /\ sdf_in.n = 41
    /\ BarInvariant(sdf_in)
    /\ IsBreakoutBar(sdf_in, 39)
    /\ IsBreakoutBar(sdf_in, 40)
    /\ Len(sout) = 2

\* a scan of bars with Low above Close, the last but one of which breaks
\* out, returned nothing: the candidate's stop is not below its entry
UncheckedBreakoutRejected ==
    /\ spc = "done"
    /\ sname = "Simple_Breakout"
    /\ sdf_in.n = 40
    /\ ColNames \subseteq sdf_in.cols
    /\ ~BarInvariant(sdf_in)
    /\ IsBreakoutBar(sdf_in, 38)
    /\ sout = <<>>

\* ------------------------------------------------------------------------
\* Crossings of one series (CrossSpec)
\* ------------------------------------------------------------------------
\* the bars at which the list holds a signal
SignalBars(list, df) ==
    {a \in 0..(df.n - 1) : \E j \in 1..Len(list) : list[j].date = IndexAt(df, a)}

\* the bars at which the flag column is set
FlagBars(column) == {a \in 0..(Len(column) - 1) : column[a + 1]}

\* no two bars of the set are adjacent, and between any two of them lies
\* a bar with EMA50 <= EMA200
SeparatedCrossings(bars, df) ==
    \A a, b \in bars :
        a < b =>
            /\ b # a + 1
            /\ \E m \in (a + 1)..(b - 1) :
                  Cell(df, "ema_50", m) <= Cell(df, "ema_200", m)

\* C24: the Golden_Cross signals of one series never fall on adjacent
\* bars: between any two bars at which GoldenCrossStrategy.scan returned a
\* signal, and between any two bars at which detect_pattern_conditions set
\* golden_cross, there is a bar with EMA50 <= EMA200; and no bar has both
\* golden_cross and death_cross set.
C24_CrossingsSeparated ==
    /\ (spc = "done" /\ sname = "Golden_Cross") =>
          SeparatedCrossings(SignalBars(sout, sdf), sdf)
    /\ (ipc = "flagged" /\ "golden_cross" \in idata.cols) =>
          /\ SeparatedCrossings(FlagBars(idata.golden_cross), idf)
          /\ FlagBars(idata.golden_cross) \cap FlagBars(idata.death_cross) = {}

\* both detectors ran on a series whose EMA50 rises above EMA200 at bar
\* 200, falls below at the next bar and rises above again: two signals,
\* golden_cross set at two bars and death_cross at the bar between
C24_Witness ==
    /\ spc = "done"
    /\ sname = "Golden_Cross"
    /\ ipc = "flagged"
    /\ Cardinality(SignalBars(sout, sdf)) = 2
    /\ Cardinality(FlagBars(idata.golden_cross)) = 2
    /\ FlagBars(idata.death_cross) # {}

====
